---- MODULE Spec2Model ----
(***************************************************************************)
(* A model of rust-duration-fmt: the decomposer of decomposed.rs (a signed *)
(* f64 number of seconds -> DecomposedTime), the builder setters, the      *)
(* default Display rendering, and the template engine of fmt/mod.rs.       *)
(*                                                                         *)
(* The decomposer works in f64.  TLC's integers are 32 bits wide, so the   *)
(* model carries its own arithmetic: naturals of any size as sequences of  *)
(* limbs (least significant first), and on top of them IEEE-754 binary64   *)
(* values with round-to-nearest-even, which is what every `*`, `/` and `-` *)
(* of the Rust code performs.  Infinities, NaN and subnormals are outside  *)
(* the model: the inputs are bounded so that no operation produces them.   *)
(***************************************************************************)
EXTENDS Integers, Sequences, FiniteSets, TLC

(***************************************************************************)
(* TLC computes an operator's argument, and a LET definition, anew at each *)
(* use when it measures coverage.  A value bound by a set constructor is   *)
(* computed once: The({e(v) : v \in {d}}) is e of the value of d.  The     *)
(* operators below bind their arguments this way.                          *)
(***************************************************************************)
The(S) == CHOOSE v \in S : TRUE

(***************************************************************************)
(* Naturals of any size: <<>> is 0, otherwise limbs in base LimbBase,      *)
(* least significant first, with a non-zero last limb.                     *)
(***************************************************************************)
LimbBase == 2^10

RECURSIVE IntBitLen(_)
IntBitLen(n0) == The({IF n = 0 THEN 0 ELSE 1 + IntBitLen(n \div 2) : n \in {n0}})

RECURSIVE BNorm(_)
BNorm(a0) ==
    The({IF a = <<>> THEN <<>>
         ELSE IF a[Len(a)] = 0 THEN BNorm(SubSeq(a, 1, Len(a) - 1))
         ELSE a : a \in {a0}})

RECURSIVE BFromInt(_)
BFromInt(n0) ==
    The({IF n = 0 THEN <<>>
         ELSE <<n % LimbBase>> \o BFromInt(n \div LimbBase) : n \in {n0}})

RECURSIVE BToInt(_)
BToInt(a0) ==
    The({IF a = <<>> THEN 0
         ELSE a[1] + LimbBase * BToInt(Tail(a)) : a \in {a0}})

BIsOdd(a) == The({v # <<>> /\ v[1] % 2 = 1 : v \in {a}})

RECURSIVE BMulSmallC(_, _, _)
BMulSmallC(a0, c, carry0) ==
    The({IF a = <<>> THEN BFromInt(carry)
         ELSE <<(a[1] * c + carry) % LimbBase>>
                \o BMulSmallC(Tail(a), c, (a[1] * c + carry) \div LimbBase) :
         a \in {a0}, carry \in {carry0}})

\* a * c for an Int c < 2^21
BMulSmall(a, c) == The({BNorm(BMulSmallC(a, v, 0)) : v \in {c}})

\* <<a \div d, a % d>> for an Int d with 0 < d < 2^21
RECURSIVE BDivModSmall(_, _)
BDivModSmall(a0, d0) ==
    The({IF a = <<>> THEN <<<<>>, 0>>
         ELSE The({The({<<BNorm(<<t \div d>> \o hi[1]), t % d>> :
                        t \in {hi[2] * LimbBase + a[1]}}) :
                   hi \in {BDivModSmall(Tail(a), d)}}) :
         a \in {a0}, d \in {d0}})

RECURSIVE BAddC(_, _, _)
BAddC(a0, b0, c0) ==
    The({IF a = <<>> /\ b = <<>> THEN (IF c = 0 THEN <<>> ELSE <<c>>)
         ELSE The({<<t % LimbBase>>
                     \o BAddC(IF a = <<>> THEN <<>> ELSE Tail(a),
                              IF b = <<>> THEN <<>> ELSE Tail(b), t \div LimbBase) :
                   t \in {(IF a = <<>> THEN 0 ELSE a[1])
                            + (IF b = <<>> THEN 0 ELSE b[1]) + c}}) :
         a \in {a0}, b \in {b0}, c \in {c0}})

BAdd(a, b) == BAddC(a, b, 0)

\* a - b - c for a >= b + c
RECURSIVE BSubC(_, _, _)
BSubC(a0, b0, c0) ==
    The({IF a = <<>> THEN <<>>
         ELSE The({<<t % LimbBase>>
                     \o BSubC(Tail(a), IF b = <<>> THEN <<>> ELSE Tail(b),
                              IF t < 0 THEN 1 ELSE 0) :
                   t \in {a[1] - (IF b = <<>> THEN 0 ELSE b[1]) - c}}) :
         a \in {a0}, b \in {b0}, c \in {c0}})

BSub(a, b) == BNorm(BSubC(a, b, 0))

\* -1, 0, 1 as a < b, a = b, a > b
RECURSIVE BCmp(_, _)
BCmp(a0, b0) ==
    The({IF Len(a) # Len(b) THEN (IF Len(a) < Len(b) THEN -1 ELSE 1)
         ELSE IF a = <<>> THEN 0
         ELSE IF a[Len(a)] # b[Len(b)] THEN (IF a[Len(a)] < b[Len(b)] THEN -1 ELSE 1)
         ELSE BCmp(BNorm(SubSeq(a, 1, Len(a) - 1)), BNorm(SubSeq(b, 1, Len(b) - 1))) :
         a \in {a0}, b \in {b0}})

BLt(a, b) == BCmp(a, b) < 0

RECURSIVE BMul(_, _)
BMul(a0, b0) ==
    The({IF a = <<>> \/ b = <<>> THEN <<>>
         ELSE The({BAdd(BMulSmall(b, a[1]),
                        IF rest = <<>> THEN <<>> ELSE <<0>> \o rest) :
                   rest \in {BMul(Tail(a), b)}}) :
         a \in {a0}, b \in {b0}})

Zeros(n) == [i \in 1..n |-> 0]

\* a * 2^k
BShl(a0, k0) ==
    The({IF a = <<>> THEN <<>>
         ELSE Zeros(k \div 10) \o BMulSmall(a, 2^(k % 10)) :
         a \in {a0}, k \in {k0}})

\* a \div 2^k
BShr(a0, k0) ==
    The({IF k \div 10 >= Len(a) THEN <<>>
         ELSE BDivModSmall(SubSeq(a, (k \div 10) + 1, Len(a)),
                           2^(k % 10))[1] :
         a \in {a0}, k \in {k0}})

BBitLen(a0) ==
    The({IF a = <<>> THEN 0
         ELSE (Len(a) - 1) * 10 + IntBitLen(a[Len(a)]) : a \in {a0}})

\* the number of trailing zero bits of a # 0
RECURSIVE BTrailingZeros(_)
BTrailingZeros(a0) ==
    The({IF a[1] = 0 THEN 10 + BTrailingZeros(Tail(a))
         ELSE CHOOSE k \in 0..(10 - 1) :
                  a[1] % 2^k = 0 /\ (a[1] \div 2^k) % 2 = 1 : a \in {a0}})

\* the decimal digits of a, most significant first (<<0>> for 0)
RECURSIVE BDigits(_)
BDigits(a) ==
    The({IF qr[1] = <<>> THEN <<qr[2]>> ELSE Append(BDigits(qr[1]), qr[2]) :
         qr \in {BDivModSmall(a, 10)}})

(***************************************************************************)
(* IEEE-754 binary64.  A finite value is [neg, m, e] standing for          *)
(* (-1)^neg * m * 2^e, with m = 0 (and e = 0) or m of exactly MantBits     *)
(* bits, so that equal values are equal records.  FRound is the rounding   *)
(* every operation ends with: to nearest, ties to the even mantissa.       *)
(***************************************************************************)
MantBits == 53

FZero == [neg |-> FALSE, m |-> <<>>, e |-> 0]

\* n of more than MantBits bits, cut to MantBits bits: the mantissa and exponent
\* of n * 2^e (plus a non-zero amount below one unit of n if sticky)
RoundMantissa(neg, n, e, sticky) ==
    LET k == BBitLen(n) - MantBits
    IN  The({LET rest == BSub(n, BShl(q, k))
                 c    == BCmp(rest, BShl(<<1>>, k - 1))
                 up   == c > 0 \/ (c = 0 /\ (sticky \/ BIsOdd(q)))
             IN  The({IF BBitLen(r) > MantBits
                      THEN [neg |-> neg, m |-> BShr(r, 1), e |-> e + k + 1]
                      ELSE [neg |-> neg, m |-> r, e |-> e + k] :
                      r \in {IF up THEN BAdd(q, <<1>>) ELSE q}}) :
             q \in {BShr(n, k)}})

\* (-1)^neg * (n0 * 2^e0, plus a non-zero amount below one unit of n0 if sticky0)
FRound(neg0, n0, e0, sticky0) ==
    The({IF n = <<>> THEN [neg |-> neg, m |-> <<>>, e |-> 0]
         ELSE IF BBitLen(n) <= MantBits
         THEN [neg |-> neg, m |-> BShl(n, MantBits - BBitLen(n)),
               e |-> e - (MantBits - BBitLen(n))]
         ELSE RoundMantissa(neg, n, e, sticky) :
         neg \in {neg0}, n \in {n0}, e \in {e0}, sticky \in {sticky0}})

\* an integer as f64 (`as f64`, and the literals of the source)
FFromBig(n) == FRound(FALSE, n, 0, FALSE)

FFromInt(n) == FFromBig(BFromInt(n))

FIsZero(x) == x.m = <<>>

FAbs(x) == [x EXCEPT !.neg = FALSE]

FNeg(x) == [x EXCEPT !.neg = ~@]

\* f64::trunc: the integer part, toward zero, keeping the sign
FTrunc(x0) ==
    The({IF x.e >= 0 \/ FIsZero(x) THEN x
         ELSE FRound(x.neg, BShr(x.m, -x.e), 0, FALSE) : x \in {x0}})

\* x * y
FMul(x0, y0) ==
    The({FRound(x.neg # y.neg, BMul(x.m, y.m), x.e + y.e, FALSE) :
         x \in {x0}, y \in {y0}})

\* x / y for y # 0 whose mantissa, without its trailing zero bits, is below 2^21
\* (every divisor of the source is such a constant)
FDiv(x0, y0) ==
    The({The({The({FRound(x.neg # y.neg, qr[1], x.e - 2 * MantBits - (y.e + tz),
                          qr[2] # 0) :
                   qr \in {BDivModSmall(BShl(x.m, 2 * MantBits), BToInt(BShr(y.m, tz)))}}) :
              tz \in {BTrailingZeros(y.m)}}) :
         x \in {x0}, y \in {y0}})

\* x + y of two values of the same sign bit `neg`, or their difference
\* (x, y are values here, and in FSubMag)
FAddMag(neg, x, y) ==
    LET e == IF x.e < y.e THEN x.e ELSE y.e
    IN  FRound(neg, BAdd(BShl(x.m, x.e - e), BShl(y.m, y.e - e)), e, FALSE)

FSubMag(neg, x, y) ==
    LET e == IF x.e < y.e THEN x.e ELSE y.e
    IN  The({IF BCmp(a, b) = 0 THEN FZero
             ELSE IF BCmp(a, b) > 0 THEN FRound(neg, BSub(a, b), e, FALSE)
             ELSE FRound(~neg, BSub(b, a), e, FALSE) :
             a \in {BShl(x.m, x.e - e)}, b \in {BShl(y.m, y.e - e)}})

\* x + y
FAdd(x0, y0) ==
    The({IF FIsZero(x) /\ FIsZero(y) THEN [FZero EXCEPT !.neg = x.neg /\ y.neg]
         ELSE IF FIsZero(y) THEN x
         ELSE IF FIsZero(x) THEN y
         ELSE IF x.neg = y.neg THEN FAddMag(x.neg, x, y)
         ELSE FSubMag(x.neg, x, y) :
         x \in {x0}, y \in {y0}})

\* x - y
FSub(x, y) == FAdd(x, FNeg(y))

\* f64::fract: x - x.trunc()
FFract(x0) == The({FSub(x, FTrunc(x)) : x \in {x0}})

\* x < y
FLt(x, y) == The({d.neg /\ ~FIsZero(d) : d \in {FSub(x, y)}})

\* f64::signum: 1.0 for a clear sign bit (+0.0 included), -1.0 for a set one
FSignum(x) == IF x.neg THEN -1 ELSE 1

(***************************************************************************)
(* `as u32`, `as u64`, `as i8` of an f64: toward zero, saturating at the   *)
(* bounds of the target type (Rust's float-to-integer cast).               *)
(***************************************************************************)
U32Bits == 32
U64Bits == 64

UMax(bits) == BSub(BShl(<<1>>, bits), <<1>>)

FToUnsigned(x0, bits) ==
    The({IF x.neg \/ FIsZero(x) THEN <<>>
         ELSE The({IF BLt(UMax(bits), t) THEN UMax(bits) ELSE t :
                   t \in {IF x.e >= 0 THEN BShl(x.m, x.e) ELSE BShr(x.m, -x.e)}}) :
         x \in {x0}})

(***************************************************************************)
(* decomposed.rs                                                           *)
(***************************************************************************)
SECS_PER_MINUTE == FFromInt(60)
SECS_PER_HOUR == FMul(SECS_PER_MINUTE, FFromInt(60))
SECS_PER_DAY == FMul(SECS_PER_HOUR, FFromInt(24))
SECS_PER_YEAR == FMul(SECS_PER_DAY, FFromInt(365))
MILLIS_PER_SEC == FFromInt(1000)
MICROS_PER_SEC == FFromInt(1000000)
NANOS_PER_SEC == FFromInt(1000000000)

\* fn decompose_fractional_seconds(fractional_seconds: f64) -> (u32, u32, u32)
\* The statements of the function, last one first: each `v \in {e}` is
\* `let v = e` and the bindings of an enclosing The come before it.
decompose_fractional_seconds(fractional_seconds) ==
    The({ The({ The({ The({ The({ The({
        <<FToUnsigned(milliseconds, U32Bits),
          FToUnsigned(microseconds, U32Bits),
          FToUnsigned(nanoseconds, U32Bits)>>
      : nanoseconds  \in {FTrunc(FMul(rem_frac2, NANOS_PER_SEC))} })
      : rem_frac2    \in {FSub(rem_frac1, FDiv(microseconds, MICROS_PER_SEC))} })
      : microseconds \in {FTrunc(FMul(rem_frac1, MICROS_PER_SEC))} })
      : rem_frac1    \in {FSub(rem_frac0, FDiv(milliseconds, MILLIS_PER_SEC))} })
      : milliseconds \in {FTrunc(FMul(rem_frac0, MILLIS_PER_SEC))} })
      : rem_frac0    \in {fractional_seconds} })

\* fn decomposed_from_float_seconds(secs: f64) -> DecomposedTime
\* Read from the bottom: secs, rem_seconds0 = secs.trunc().abs(),
\* fractional_seconds = secs.fract().abs(), then one division and one
\* subtraction for each of years, days, hours and minutes.
decomposed_from_float_seconds(secs0) ==
    The({ The({ The({ The({ The({ The({ The({ The({ The({ The({ The({ The({
        [sign_num     |-> FSignum(secs),
         years        |-> FToUnsigned(years, U64Bits),
         days         |-> FToUnsigned(days, U32Bits),
         hours        |-> FToUnsigned(hours, U32Bits),
         minutes      |-> FToUnsigned(minutes, U32Bits),
         seconds      |-> FToUnsigned(seconds, U32Bits),
         milliseconds |-> sub[1],
         microseconds |-> sub[2],
         nanoseconds  |-> sub[3],
         fractional_seconds |-> fractional_seconds]
      : seconds \in {FTrunc(rem_seconds4)},
        sub     \in {decompose_fractional_seconds(fractional_seconds)} })
      : rem_seconds4 \in {FSub(rem_seconds3, FMul(minutes, SECS_PER_MINUTE))} })
      : minutes      \in {FTrunc(FDiv(rem_seconds3, SECS_PER_MINUTE))} })
      : rem_seconds3 \in {FSub(rem_seconds2, FMul(hours, SECS_PER_HOUR))} })
      : hours        \in {FTrunc(FDiv(rem_seconds2, SECS_PER_HOUR))} })
      : rem_seconds2 \in {FSub(rem_seconds1, FMul(days, SECS_PER_DAY))} })
      : days         \in {FTrunc(FDiv(rem_seconds1, SECS_PER_DAY))} })
      : rem_seconds1 \in {FSub(rem_seconds0, FMul(years, SECS_PER_YEAR))} })
      : years        \in {FTrunc(FDiv(rem_seconds0, SECS_PER_YEAR))} })
      : fractional_seconds \in {FAbs(FFract(secs))} })
      : rem_seconds0 \in {FAbs(FTrunc(secs))} })
      : secs \in {secs0} })

\* DecomposedTime::zero()
zero ==
    [sign_num |-> 1, years |-> <<>>, days |-> <<>>, hours |-> <<>>,
     minutes |-> <<>>, seconds |-> <<>>, milliseconds |-> <<>>,
     microseconds |-> <<>>, nanoseconds |-> <<>>, fractional_seconds |-> FZero]

\* impl Default for DecomposedTime
default ==
    [sign_num |-> 1, years |-> <<>>, days |-> <<>>, hours |-> <<>>,
     minutes |-> <<>>, seconds |-> <<>>, milliseconds |-> <<>>,
     microseconds |-> <<>>, nanoseconds |-> <<>>, fractional_seconds |-> FZero]

is_positive(t) == t.sign_num > 0
is_negative(t) == t.sign_num < 0
signum(t) == t.sign_num

(***************************************************************************)
(* The builder setters.  Each returns <<t>>, the new value, or <<>> when   *)
(* its assert! fails and the call panics.                                  *)
(***************************************************************************)
with_years(t, years) == <<[t EXCEPT !.years = years]>>

\* a mutation of with_days: the assert! is missing
with_days_unchecked(t, days) == <<[t EXCEPT !.days = days]>>

with_days(t, days) ==
    IF BLt(days, BFromInt(365)) THEN <<[t EXCEPT !.days = days]>> ELSE <<>>

with_hours(t, hours) ==
    IF BLt(hours, BFromInt(24)) THEN <<[t EXCEPT !.hours = hours]>> ELSE <<>>

with_minutes(t, mins) ==
    IF BLt(mins, BFromInt(60)) THEN <<[t EXCEPT !.minutes = mins]>> ELSE <<>>

with_seconds(t, secs) ==
    IF BLt(secs, BFromInt(60)) THEN <<[t EXCEPT !.seconds = secs]>> ELSE <<>>

with_fractional_seconds(t, frac) ==
    IF FLt(frac, FFromInt(1)) /\ ~FLt(frac, FZero)
    THEN The({ <<[t EXCEPT !.milliseconds = sub[1], !.microseconds = sub[2],
                            !.nanoseconds = sub[3], !.fractional_seconds = frac]>>
               : sub \in {decompose_fractional_seconds(frac)} })
    ELSE <<>>

\* impl From<DecomposedTime> for FloatDuration: the seconds of the duration
FloatDuration_from(time) ==
    LET sum == FAdd(FAdd(FAdd(FAdd(FAdd(
                   FMul(SECS_PER_YEAR, FFromBig(time.years)),
                   FMul(SECS_PER_DAY, FFromBig(time.days))),
                   FMul(SECS_PER_HOUR, FFromBig(time.hours))),
                   FMul(SECS_PER_MINUTE, FFromBig(time.minutes))),
                   FFromBig(time.seconds)),
                   time.fractional_seconds)
    IN  IF signum(time) = 0 THEN [FZero EXCEPT !.neg = sum.neg]
        ELSE IF signum(time) < 0 THEN FNeg(sum) ELSE sum

\* impl Decompose for FloatDuration: self.as_seconds() is the f64 it wraps
FloatDuration_decompose(secs) == decomposed_from_float_seconds(secs)

\* impl Decompose for time::Duration: as_secs is the u64 of whole seconds and
\* subsec_nanos the u32 of nanoseconds below one second
time_Duration_secs(as_secs, subsec_nanos) ==
    FAdd(FFromBig(as_secs), FMul(FFromBig(subsec_nanos), NANOS_PER_SEC))

time_Duration_decompose(as_secs, subsec_nanos) ==
    decomposed_from_float_seconds(time_Duration_secs(as_secs, subsec_nanos))

\* chrono::Duration, held as its sign and its whole nanoseconds.
\* num_nanoseconds() and num_microseconds() return the count as an i64,
\* <<n>>, or None, <<>>, when it does not fit; num_milliseconds() always fits.
\* The counts are magnitudes: the sign is d.neg.
I64Max == UMax(U64Bits - 1)

CheckedI64(n0) == The({IF BLt(I64Max, n) THEN <<>> ELSE <<n>> : n \in {n0}})

num_nanoseconds(d) == CheckedI64(d.nanos)

num_microseconds(d) == CheckedI64(BDivModSmall(d.nanos, 1000)[1])

num_milliseconds(d) == BDivModSmall(BDivModSmall(d.nanos, 1000)[1], 1000)[1]

\* (count as f64), with the sign of the duration
SignedF64(neg, n) == [FFromBig(n) EXCEPT !.neg = neg]

\* impl Decompose for chrono::Duration: the f64 given to the decomposer
chrono_Duration_secs(d) ==
    The({The({
        IF nanos # <<>>
        THEN FMul(SignedF64(d.neg, nanos[1]), NANOS_PER_SEC)
        ELSE IF micros # <<>>
        THEN FMul(SignedF64(d.neg, micros[1]), MICROS_PER_SEC)
        ELSE FMul(SignedF64(d.neg, num_milliseconds(d)), MILLIS_PER_SEC)
      : micros \in {num_microseconds(d)} })
      : nanos \in {num_nanoseconds(d)} })

chrono_Duration_decompose(d) ==
    decomposed_from_float_seconds(chrono_Duration_secs(d))

(***************************************************************************)
(* Text: a string is the sequence of its characters.                       *)
(***************************************************************************)
DigitChar(d) == <<"0", "1", "2", "3", "4", "5", "6", "7", "8", "9">>[d + 1]

\* "{}" of an unsigned integer
Decimal(n) == The({[i \in 1..Len(ds) |-> DigitChar(ds[i])] : ds \in {BDigits(n)}})

RECURSIVE PadLeft(_, _)
PadLeft(str0, width) ==
    The({IF Len(str) >= width THEN str ELSE PadLeft(<<"0">> \o str, width) :
         str \in {str0}})

\* a mutation of Padded: "{}" in place of "{:02}" and "{:03}"
Unpadded(n, width) == Decimal(n)

\* "{:02}" and "{:03}" of an unsigned integer
Padded(n, width) == PadLeft(Decimal(n), width)

\* a mutation of the Display of DecomposedTime: the hours are always written
DecomposedTime_fmt_with_hours(self) ==
    Padded(self.hours, 2) \o <<":">> \o Padded(self.minutes, 2) \o <<":">>
        \o Padded(self.seconds, 2)

\* impl fmt::Display for DecomposedTime (the sink is a String: no write fails)
DecomposedTime_fmt(self) ==
    LET yr  == IF self.years # <<>> THEN Decimal(self.years) \o <<"y", "r", " ">> ELSE <<>>
        d   == IF self.days # <<>> THEN Decimal(self.days) \o <<"d", " ">> ELSE <<>>
        h   == IF self.hours # <<>> \/ self.days # <<>> \/ self.years # <<>>
               THEN Padded(self.hours, 2) \o <<":">> ELSE <<>>
        ms  == Padded(self.minutes, 2) \o <<":">> \o Padded(self.seconds, 2)
        sub == IF self.nanoseconds # <<>>
               THEN <<".">> \o Padded(self.milliseconds, 3) \o <<"'">>
                      \o Padded(self.microseconds, 3) \o <<"'">>
                      \o Padded(self.nanoseconds, 3)
               ELSE IF self.microseconds # <<>>
               THEN <<".">> \o Padded(self.milliseconds, 3) \o <<"'">>
                      \o Padded(self.microseconds, 3)
               ELSE IF self.milliseconds # <<>>
               THEN <<".">> \o Padded(self.milliseconds, 3)
               ELSE <<>>
    IN  yr \o d \o h \o ms \o sub

(***************************************************************************)
(* total_hours() and total_days() are called by fmt/mod.rs and defined in  *)
(* no file of src/: they are modelled from the specification, folding the  *)
(* units into one u64 count, <<n>>, or <<>> ("no value") on overflow.      *)
(***************************************************************************)
CheckedU64(n) == IF BLt(UMax(U64Bits), n) THEN <<>> ELSE <<n>>

total_hours(time) ==
    CheckedU64(BAdd(BAdd(BMulSmall(time.years, 365 * 24), BMulSmall(time.days, 24)),
                    time.hours))

total_days(time) ==
    CheckedU64(BAdd(BMulSmall(time.years, 365), time.days))

(***************************************************************************)
(* fmt/mod.rs                                                              *)
(***************************************************************************)
FIELD_DELIMITER == "%"

\* "{:.5}" of a non-negative f64: the value rounded to 5 decimals
Fixed5(x) ==
    LET n    == BMulSmall(x.m, 100000)
        k    == -x.e
        q    == IF k <= 0 THEN BShl(n, -k) ELSE BShr(n, k)
        rest == IF k <= 0 THEN <<>> ELSE BSub(n, BShl(q, k))
        c    == IF k <= 0 THEN -1 ELSE BCmp(rest, BShl(<<1>>, k - 1))
        r    == IF c > 0 \/ (c = 0 /\ BIsOdd(q)) THEN BAdd(q, <<1>>) ELSE q
        ds   == PadLeft(Decimal(r), 6)
    IN  SubSeq(ds, 1, Len(ds) - 5) \o <<".">> \o SubSeq(ds, Len(ds) - 4, Len(ds))

\* "{}" of an f64 is its shortest decimal that reads back as the same f64;
\* it is kept as one element naming the conversion
ShortestF64(x) == <<"{fractional_seconds}">>

\* A sink (fmt::Formatter over some fmt::Write): what was written, and how many
\* characters it takes before a write fails (-1: a String, which takes them all).
SinkWrite(sink0, str0) ==
    The({IF sink.cap >= 0 /\ Len(sink.buf) + Len(str) > sink.cap
         THEN [err |-> "FmtError",
               sink |-> [sink EXCEPT
                           !.buf = @ \o SubSeq(str, 1, sink.cap - Len(sink.buf))]]
         ELSE [err |-> "Ok", sink |-> [sink EXCEPT !.buf = @ \o str]] :
         sink \in {sink0}, str \in {str0}})

\* a mutation of validate_field: the arm 'U' is missing
validate_field_without_U(field) ==
    IF field \in {"S", "M", "H", "D", "Y", "F", "T", "s", "m", "h", "f", "x", "y", "z"}
    THEN "Ok"
    ELSE "UnknownField"

\* a mutation of validate_field: every selector passes
validate_field_lenient(field) == "Ok"

\* fn validate_field(&self, field: char) -> Result<(), FormatError>
validate_field(field) ==
    IF field \in {"S", "M", "H", "D", "Y", "F", "T", "U", "s", "m", "h", "f", "x", "y", "z"}
    THEN "Ok"
    ELSE "UnknownField"

\* fn validate(&self) -> Result<(), FormatError>, from character i on
RECURSIVE validate_from(_, _)
validate_from(format, i) ==
    IF i > Len(format) THEN "Ok"
    ELSE IF format[i] = FIELD_DELIMITER
    THEN IF i + 1 <= Len(format)
         THEN IF validate_field(format[i + 1]) = "Ok"
              THEN validate_from(format, i + 2)
              ELSE validate_field(format[i + 1])
         ELSE "UnexpectedFieldDelimiter"
    ELSE validate_from(format, i + 1)

validate(self) == validate_from(self.format, 1)

\* a mutation of WriteTotal: a fold with no value is written as u64::MAX
WriteTotalSaturating(f, total) ==
    SinkWrite(f, Decimal(The({IF t # <<>> THEN t[1] ELSE UMax(U64Bits) :
                              t \in {total}})))

\* the arms 'T' and 'U' of handle_format_field:
\* if let Some(hours) = total { write!(f, "{}", hours) } else { Err(ValueOutOfRange) }
WriteTotal(f, total) ==
    The({IF t # <<>> THEN SinkWrite(f, Decimal(t[1]))
         ELSE [err |-> "ValueOutOfRange", sink |-> f] :
         t \in {total}})

\* fn handle_format_field(&self, f: &mut fmt::Formatter, field: char)
handle_format_field(self, f, field) ==
    CASE field = "x" -> SinkWrite(f, Padded(self.time.milliseconds, 3))
      [] field = "y" -> SinkWrite(f, Padded(self.time.microseconds, 3))
      [] field = "z" -> SinkWrite(f, Padded(self.time.nanoseconds, 3))
      [] field = "f" -> SinkWrite(f, ShortestF64(self.time.fractional_seconds))
      [] field = "F" -> SinkWrite(f, Fixed5(self.time.fractional_seconds))
      [] field = "s" -> SinkWrite(f, Decimal(self.time.seconds))
      [] field = "m" -> SinkWrite(f, Decimal(self.time.minutes))
      [] field = "h" -> SinkWrite(f, Decimal(self.time.hours))
      [] field = "S" -> SinkWrite(f, Padded(self.time.seconds, 2))
      [] field = "M" -> SinkWrite(f, Padded(self.time.minutes, 2))
      [] field = "H" -> SinkWrite(f, Padded(self.time.hours, 2))
      [] field = "D" -> SinkWrite(f, Decimal(self.time.days))
      [] field = "Y" -> SinkWrite(f, Decimal(self.time.years))
      [] field = "T" -> WriteTotal(f, total_hours(self.time))
      [] field = "U" -> WriteTotal(f, total_days(self.time))
      [] field = FIELD_DELIMITER -> SinkWrite(f, <<field>>)
      [] OTHER -> [err |-> "UnknownField", sink |-> f]

\* pub fn format(&self, f: &mut fmt::Formatter) -> Result<(), FormatError>,
\* from character i on
RECURSIVE format_from(_, _, _)
format_from(self, f, i) ==
    IF i > Len(self.format) THEN [err |-> "Ok", sink |-> f]
    ELSE IF self.format[i] = FIELD_DELIMITER
    THEN IF i + 1 <= Len(self.format)
         THEN The({IF r.err = "Ok" THEN format_from(self, r.sink, i + 2) ELSE r :
                   r \in {handle_format_field(self, f, self.format[i + 1])}})
         ELSE [err |-> "UnexpectedFieldDelimiter", sink |-> f]
    ELSE The({IF r.err = "Ok" THEN format_from(self, r.sink, i + 1) ELSE r :
              r \in {SinkWrite(f, <<self.format[i]>>)}})

format(self, f) == format_from(self, f, 1)

\* pub fn make_format(format_str, time: D): [err, fmt], fmt meaningful when Ok.
\* D is a FloatDuration, whose decompose() never fails.
make_format(format_str, secs0) ==
    The({[err |-> validate(self), fmt |-> self] :
         self \in {[format |-> format_str, time |-> FloatDuration_decompose(secs0)]}})

\* A String to write into
NewString == [buf |-> <<>>, cap |-> -1]

\* impl fmt::Display for DurationFormat, used by format!("{}", fmt) and
\* to_string(): any error of format() becomes fmt::Error, on which format!
\* panics ("a formatting trait implementation returned an error")
DurationFormat_to_string(self) ==
    The({IF r.err = "Ok" THEN [kind |-> "Ok", err |-> "", text |-> r.sink.buf]
         ELSE [kind |-> "panic", err |-> "", text |-> <<>>] :
         r \in {format(self, NewString)}})

\* pub fn format_duration(format: &str, time: D) -> Result<String, FormatError>
format_duration(format_str, secs0) ==
    The({IF made.err # "Ok" THEN [kind |-> "Err", err |-> made.err, text |-> <<>>]
         ELSE DurationFormat_to_string(made.fmt) :
         made \in {make_format(format_str, secs0)}})

(***************************************************************************)
(* The inputs.                                                             *)
(***************************************************************************)
\* FloatDuration values as the tests build them: a number of half seconds
\* plus FloatDuration::nanoseconds(n), of either sign
HalfSecs == {0, 5, 25, 61, 180, 1200, 14400, 18000, 345600, 1730404,
             63072000, 157680000}
SubNanos == {0, 10, 100, 50000, 100000, 500000, 100000000}

Seconds(neg, halves, nanos) ==
    LET mag == FAdd(FDiv(FFromInt(halves), FFromInt(2)),
                    FDiv(FFromInt(nanos), NANOS_PER_SEC))
    IN  [mag EXCEPT !.neg = neg]

\* durations beyond 2^53 seconds: k * 2^e
MinExp == 64
MaxExp == 90
HugeFactors == {1, 61}

Huge(k, e) == FFromBig(BShl(BFromInt(k), e))

SecsInputs ==
    {Seconds(neg, h, n) : neg \in BOOLEAN, h \in HalfSecs, n \in SubNanos}
      \cup {Huge(k, e) : k \in HugeFactors, e \in MinExp..MaxExp}

\* the arguments given to the setters
YearArgs == {<<>>, BFromInt(5), UMax(U64Bits)}
DayArgs == {BFromInt(10), BFromInt(364), BFromInt(365)}
HourArgs == {BFromInt(23), BFromInt(24)}
MinuteArgs == {BFromInt(30), BFromInt(60)}
SecondArgs == {BFromInt(30), BFromInt(60), UMax(U32Bits)}
\* 0.5, 0.2, 0.00005, 0.00000005, 0.999999999, 1.0, -0.5
FracArgs ==
    {FDiv(FFromInt(5), FFromInt(10)), FDiv(FFromInt(2), FFromInt(10)),
     FDiv(FFromInt(5), FFromInt(100000)), FDiv(FFromInt(5), FFromInt(100000000)),
     FDiv(FFromInt(999999999), FFromInt(1000000000)),
     FFromInt(1), FNeg(FDiv(FFromInt(5), FFromInt(10)))}

\* the templates: every string of up to MaxLen characters of CoreChars, every
\* pair of directives, and the templates of the tests
MaxLen == 3
CoreChars == {"%", "H", "Q", ":"}
Selectors == {"Y", "D", "H", "h", "M", "m", "S", "s", "x", "y", "z", "f", "F", "T", "U"}
TemplateChars == Selectors \cup {"%", "Q", ":"}

RECURSIVE Strings(_, _)
Strings(chars, n) ==
    IF n = 0 THEN {<<>>}
    ELSE LET shorter == Strings(chars, n - 1)
         IN  shorter \cup {Append(str, c) : str \in shorter, c \in chars}

TestTemplates ==
    {<<"%", "H", " ", "h", "o", "u", "r", "s">>,
     <<"%", "H", ":", "%", "M">>,
     <<"%", "S", ".", "%", "x", "'", "%", "y", "'", "%", "z">>}

Templates ==
    Strings(CoreChars, MaxLen)
      \cup {<<"%", c>> : c \in TemplateChars}
      \cup {<<"%", c, "%", d>> : c \in Selectors, d \in TemplateChars}
      \cup TestTemplates

\* the durations given to the formatter: 2 h, 2.5 h, 2.5 s + 100 us,
\* -(1 yr + 90.5 s + 10 ns), and three beyond 2^53 seconds
FormatSecs ==
    {Seconds(FALSE, 14400, 0), Seconds(FALSE, 18000, 0), Seconds(FALSE, 5, 100000),
     Seconds(TRUE, 63072181, 10), Huge(61, 72), Huge(1, 80), Huge(1, 83)}

\* the time::Durations given to decompose(): whole seconds (0, 1, 90,
\* 1 d + 1 h + 1 min + 1 s, 2.5 yr) and nanoseconds below one second
StdSecs ==
    {<<>>, BFromInt(1), BFromInt(90), BFromInt(90061), BFromInt(78840000)}
StdNanos ==
    {<<>>, BFromInt(1), BFromInt(500), BFromInt(1000000), BFromInt(100500000),
     BFromInt(500000000), BFromInt(999999999)}

\* the chrono::Durations given to decompose(), in nanoseconds: 0, 1 ns,
\* 1.5 s, 90 s + 500 us, 2^62, 10^19 (beyond i64 nanoseconds) and 10^22
\* (beyond i64 microseconds)
ChronoNanos ==
    {<<>>, BFromInt(1), BFromInt(1500000000),
     BMul(BFromInt(90000500), BFromInt(1000)),
     BShl(<<1>>, 62),
     BMul(BFromInt(1000000000), BMul(BFromInt(100000), BFromInt(100000))),
     BMul(BMul(BFromInt(1000000000), BMul(BFromInt(100000), BFromInt(100000))),
          BFromInt(1000))}
ChronoDurations ==
    {d \in [neg : BOOLEAN, nanos : ChronoNanos] : d.neg => d.nanos # <<>>}

\* how many characters a sink takes before it fails
MaxSink == 3

(***************************************************************************)
(* The state machine.  An optional value is a sequence of at most one      *)
(* element.                                                                *)
(*   pc    where the program is: "start"; "decomposed" (holds the time a   *)
(*         decompose() of a FloatDuration returned); "adapted" (holds the  *)
(*         time a decompose() of a time::Duration or a chrono::Duration    *)
(*         returned); "built" (holds a time of a builder       *)
(*         chain); "converted" (the time was turned back into a            *)
(*         FloatDuration); "displayed" (the time was written with {});    *)
(*         "formatter" (holds a DurationFormat); "failed" (make_format     *)
(*         returned an error); "rendered" (the DurationFormat was          *)
(*         written); "done" (format_duration returned); "panicked"         *)
(*   call  the last call and its arguments                                 *)
(*   secs  the f64 seconds of the duration given to the last call          *)
(*   time  the DecomposedTime held                                         *)
(*   fmt   the DurationFormat held                                         *)
(*   back  the seconds of the FloatDuration converted back from time       *)
(*   out   what the last rendering call returned                           *)
(***************************************************************************)
VARIABLES pc, call, secs, time, fmt, back, out

vars == <<pc, call, secs, time, fmt, back, out>>

NoCall ==
    [op |-> "", n |-> <<>>, x |-> FZero, str |-> <<>>, cap |-> -1,
     nanos |-> <<>>, neg |-> FALSE]
NoOut == [kind |-> "", err |-> "", text |-> <<>>]

Init ==
    /\ pc = "start"
    /\ call = NoCall
    /\ secs = <<>>
    /\ time = <<>>
    /\ fmt = <<>>
    /\ back = <<>>
    /\ out = NoOut

\* FloatDuration::seconds(s).decompose().unwrap()
Decompose ==
    /\ pc = "start"
    /\ pc' = "decomposed"
    /\ \E s \in SecsInputs :
          /\ call' = [NoCall EXCEPT !.op = "decompose", !.x = s]
          /\ secs' = <<s>>
          /\ time' = <<FloatDuration_decompose(s)>>
    /\ UNCHANGED <<fmt, back, out>>

\* time::Duration::new(s, n).decompose().unwrap()
DecomposeStdDuration ==
    /\ pc = "start"
    /\ pc' = "adapted"
    /\ \E s \in StdSecs, n \in StdNanos :
          /\ call' = [NoCall EXCEPT !.op = "time_decompose", !.n = s, !.nanos = n]
          /\ secs' = <<time_Duration_secs(s, n)>>
          /\ time' = <<time_Duration_decompose(s, n)>>
    /\ UNCHANGED <<fmt, back, out>>

\* chrono::Duration::nanoseconds(..).decompose().unwrap(), and longer ones
DecomposeChronoDuration ==
    /\ pc = "start"
    /\ pc' = "adapted"
    /\ \E d \in ChronoDurations :
          /\ call' = [NoCall EXCEPT !.op = "chrono_decompose",
                                    !.nanos = d.nanos, !.neg = d.neg]
          /\ secs' = <<chrono_Duration_secs(d)>>
          /\ time' = <<chrono_Duration_decompose(d)>>
    /\ UNCHANGED <<fmt, back, out>>

Zero ==
    /\ pc = "start"
    /\ pc' = "built"
    /\ call' = [NoCall EXCEPT !.op = "zero"]
    /\ time' = <<zero>>
    /\ UNCHANGED <<secs, fmt, back, out>>

Default ==
    /\ pc = "start"
    /\ pc' = "built"
    /\ call' = [NoCall EXCEPT !.op = "default"]
    /\ time' = <<default>>
    /\ UNCHANGED <<secs, fmt, back, out>>

\* one setter of a builder chain: r is what it returns, <<>> when it panics
Setter(op, n, x, r0) ==
    /\ call' = [NoCall EXCEPT !.op = op, !.n = n, !.x = x]
    /\ \E r \in {r0} :
          /\ pc' = IF r = <<>> THEN "panicked" ELSE "built"
          /\ time' = r
    /\ UNCHANGED <<secs, fmt, back, out>>

WithYears ==
    pc = "built" /\ \E n \in YearArgs :
        Setter("with_years", n, FZero, with_years(time[1], n))
WithDays ==
    pc = "built" /\ \E n \in DayArgs :
        Setter("with_days", n, FZero, with_days(time[1], n))
WithHours ==
    pc = "built" /\ \E n \in HourArgs :
        Setter("with_hours", n, FZero, with_hours(time[1], n))
WithMinutes ==
    pc = "built" /\ \E n \in MinuteArgs :
        Setter("with_minutes", n, FZero, with_minutes(time[1], n))
WithSeconds ==
    pc = "built" /\ \E n \in SecondArgs :
        Setter("with_seconds", n, FZero, with_seconds(time[1], n))
WithFractionalSeconds ==
    pc = "built" /\ \E x \in FracArgs :
        Setter("with_fractional_seconds", <<>>, x,
               with_fractional_seconds(time[1], x))

\* format!("{}", time)
Display ==
    /\ pc \in {"decomposed", "built"}
    /\ pc' = "displayed"
    /\ call' = [NoCall EXCEPT !.op = "display"]
    /\ out' = [kind |-> "Ok", err |-> "", text |-> DecomposedTime_fmt(time[1])]
    /\ UNCHANGED <<secs, time, fmt, back>>

\* FloatDuration::from(time)
IntoFloatDuration ==
    /\ pc \in {"decomposed", "built"}
    /\ pc' = "converted"
    /\ call' = [NoCall EXCEPT !.op = "from"]
    /\ back' = <<FloatDuration_from(time[1])>>
    /\ UNCHANGED <<secs, time, fmt, out>>

\* make_format(t, FloatDuration::seconds(s))
MakeFormat ==
    /\ pc = "start"
    /\ \E t \in Templates, s \in FormatSecs :
          /\ \E made \in {make_format(t, s)} :
                /\ pc' = IF made.err = "Ok" THEN "formatter" ELSE "failed"
                /\ fmt' = IF made.err = "Ok" THEN <<made.fmt>> ELSE <<>>
                /\ out' = IF made.err = "Ok" THEN NoOut
                          ELSE [kind |-> "Err", err |-> made.err, text |-> <<>>]
          /\ call' = [NoCall EXCEPT !.op = "make_format", !.x = s, !.str = t]
          /\ secs' = <<s>>
    /\ UNCHANGED <<time, back>>

\* fmt.format(f) on a sink that takes cap characters (-1: all of them)
Format ==
    /\ pc = "formatter"
    /\ pc' = "rendered"
    /\ \E cap \in -1..MaxSink :
          /\ call' = [NoCall EXCEPT !.op = "format", !.cap = cap]
          /\ \E r \in {format(fmt[1], [buf |-> <<>>, cap |-> cap])} :
                out' = [kind |-> IF r.err = "Ok" THEN "Ok" ELSE "Err",
                        err  |-> IF r.err = "Ok" THEN "" ELSE r.err,
                        text |-> r.sink.buf]
    /\ UNCHANGED <<secs, time, fmt, back>>

\* fmt.to_string()
ToStringCall ==
    /\ pc = "formatter"
    /\ call' = [NoCall EXCEPT !.op = "to_string"]
    /\ \E r \in {DurationFormat_to_string(fmt[1])} :
           /\ out' = r
           /\ pc' = IF r.kind = "panic" THEN "panicked" ELSE "rendered"
    /\ UNCHANGED <<secs, time, fmt, back>>

\* format_duration(t, FloatDuration::seconds(s))
FormatDuration ==
    /\ pc = "start"
    /\ \E t \in Templates, s \in FormatSecs :
          /\ call' = [NoCall EXCEPT !.op = "format_duration", !.x = s, !.str = t]
          /\ secs' = <<s>>
          /\ \E r \in {format_duration(t, s)} :
                /\ out' = r
                /\ pc' = IF r.kind = "panic" THEN "panicked" ELSE "done"
    /\ UNCHANGED <<time, fmt, back>>

Next ==
    \/ Decompose
    \/ DecomposeStdDuration
    \/ DecomposeChronoDuration
    \/ Zero
    \/ Default
    \/ WithYears
    \/ WithDays
    \/ WithHours
    \/ WithMinutes
    \/ WithSeconds
    \/ WithFractionalSeconds
    \/ Display
    \/ IntoFloatDuration
    \/ MakeFormat
    \/ Format
    \/ ToStringCall
    \/ FormatDuration

Spec == Init /\ [][Next]_vars

(***************************************************************************)
(* The claims of the specification, stated over the state machine.         *)
(***************************************************************************)

\* the range invariants of a Breakdown (the fields are unsigned: >= 0)
InRange(t) ==
    /\ BLt(t.days, BFromInt(365))
    /\ BLt(t.hours, BFromInt(24))
    /\ BLt(t.minutes, BFromInt(60))
    /\ BLt(t.seconds, BFromInt(60))
    /\ BLt(t.milliseconds, BFromInt(1000))
    /\ BLt(t.microseconds, BFromInt(1000))
    /\ BLt(t.nanoseconds, BFromInt(1000))
    /\ ~FLt(t.fractional_seconds, FZero)
    /\ FLt(t.fractional_seconds, FFromInt(1))

\* C1: for every finite seconds value given to the decomposer, the Breakdown
\* it returns has days < 365, hours < 24, minutes < 60, seconds < 60, each of
\* milliseconds, microseconds, nanoseconds in [0, 1000) and
\* 0 <= fractional_seconds < 1.
C1_DecomposerRanges ==
    pc = "decomposed" => InRange(time[1])

\* the floating-point tolerance of the round trip: 2^-40 of the value
WithinTolerance(x, s) ==
    ~FLt(FDiv(FAbs(s), FFromBig(BShl(<<1>>, 40))), FAbs(FSub(x, s)))

\* C2: round-trip law: for every non-negative finite s, decomposing s and
\* recomputing years*31536000 + days*86400 + hours*3600 + minutes*60 +
\* seconds + fractional_seconds from the Breakdown reproduces s within
\* floating-point tolerance.
C2_RoundTrip ==
    (pc = "converted" /\ secs # <<>> /\ ~secs[1].neg)
        => WithinTolerance(back[1], secs[1])

\* C7: the decomposer preserves the sign of the input: a positive value gives
\* is_positive() and signum 1; a negative value gives is_negative(), signum
\* -1 and the fields of the magnitude; a zero duration gives all fields 0
\* with positive sign, equal to zero() and to default().
C7_SignPreserved ==
    pc = "decomposed" =>
        /\ (~FIsZero(secs[1]) /\ ~secs[1].neg)
              => is_positive(time[1]) /\ signum(time[1]) = 1
        /\ (~FIsZero(secs[1]) /\ secs[1].neg)
              => /\ is_negative(time[1]) /\ signum(time[1]) = -1
                 /\ [time[1] EXCEPT !.sign_num = 1]
                        = decomposed_from_float_seconds(FAbs(secs[1]))
        /\ FIsZero(secs[1])
              => /\ is_positive(time[1])
                 /\ time[1] = zero
                 /\ time[1] = default

(***************************************************************************)
(* Templates, as the specification describes them: a `%` that is not the   *)
(* selector of the `%` before it starts a directive, and the character     *)
(* after it is the directive's selector.                                   *)
(***************************************************************************)
RECURSIVE StartsDirective(_, _)
StartsDirective(t, i) ==
    /\ i \in 1..Len(t)
    /\ t[i] = "%"
    /\ ~StartsDirective(t, i - 1)

\* the selectors of the directives of template t
SelectorsOf(t) == {t[i + 1] : i \in {j \in 1..(Len(t) - 1) : StartsDirective(t, j)}}

\* the last character of t is a delimiter with no selector after it
LoneTrailing(t) == StartsDirective(t, Len(t))

\* how many directives `%%` template t has
Escapes(t) ==
    Cardinality({j \in 1..(Len(t) - 1) : StartsDirective(t, j) /\ t[j + 1] = "%"})

\* the state is the one a validating call (make_format, format_duration)
\* returned to
Validated == call.op \in {"make_format", "format_duration"}

\* what the validation of that call came to
ValidationOutcome ==
    IF call.op = "make_format"
    THEN IF pc = "formatter" THEN "Ok" ELSE out.err
    ELSE IF out.kind = "Err" THEN out.err ELSE "Ok"

\* C3 as the specification states it: validation fails with
\* UnexpectedFieldDelimiter for every template whose last character is a lone
\* `%`, fails with UnknownField for every template with a directive whose
\* selector is not one of the fifteen, and succeeds when all directives use
\* one of the fifteen; whatever the Breakdown.  (Stated for the templates
\* with no `%%`, which C4 is about.)
C3_ValidationOutcomes ==
    (Validated /\ "%" \notin SelectorsOf(call.str)) =>
        /\ LoneTrailing(call.str) => ValidationOutcome = "UnexpectedFieldDelimiter"
        /\ ~(SelectorsOf(call.str) \subseteq Selectors)
              => ValidationOutcome = "UnknownField"
        /\ (SelectorsOf(call.str) \subseteq Selectors /\ ~LoneTrailing(call.str))
              => ValidationOutcome = "Ok"

\* C3, amended: validation reports the first error of its left-to-right scan.
\* It fails with UnknownField for every template with a directive whose
\* selector is not one of the fifteen, also when the template ends in a lone
\* `%`; it fails with UnexpectedFieldDelimiter for every template that ends in
\* a lone `%` and whose directives all use one of the fifteen; it succeeds for
\* every other template; whatever the Breakdown.
C3_FirstErrorDecides ==
    Validated =>
        ValidationOutcome =
            IF ~(SelectorsOf(call.str) \subseteq Selectors) THEN "UnknownField"
            ELSE IF LoneTrailing(call.str) THEN "UnexpectedFieldDelimiter"
            ELSE "Ok"

\* make_format("%Q%", ..) returned UnknownField
C3_UnknownBeforeLoneTrailing ==
    /\ call.op = "make_format"
    /\ call.str = <<"%", "Q", "%">>
    /\ pc = "failed"
    /\ out.err = "UnknownField"

\* C4: the escape `%%` is accepted by validation and renders as one `%`: for
\* every template with a `%%` and otherwise only literals and recognized
\* directives, make_format / format_duration succeeds and each `%%` puts
\* exactly one `%` in the output.
C4_EscapeAccepted ==
    (/\ Validated
     /\ "%" \in SelectorsOf(call.str)
     /\ SelectorsOf(call.str) \subseteq Selectors \cup {"%"}
     /\ ~LoneTrailing(call.str))
        => /\ ValidationOutcome = "Ok"
           /\ (call.op = "format_duration" /\ out.kind = "Ok")
                 => Cardinality({i \in DOMAIN out.text : out.text[i] = "%"})
                        = Escapes(call.str)

(***************************************************************************)
(* Rendering, as the specification describes it.                           *)
(***************************************************************************)
\* n in decimal, with zeros in front up to width characters
ZeroPad(n, width) ==
    [i \in 1..(width - Len(Decimal(n))) |-> "0"] \o Decimal(n)

\* the selectors whose rendering C5 states
ListedSelectors == {"Y", "D", "h", "m", "s", "H", "M", "S", "x", "y", "z"}

\* the rendering of the directive with selector c
RenderingOf(c, t) ==
    CASE c = "Y" -> Decimal(t.years)
      [] c = "D" -> Decimal(t.days)
      [] c = "h" -> Decimal(t.hours)
      [] c = "m" -> Decimal(t.minutes)
      [] c = "s" -> Decimal(t.seconds)
      [] c = "H" -> ZeroPad(t.hours, 2)
      [] c = "M" -> ZeroPad(t.minutes, 2)
      [] c = "S" -> ZeroPad(t.seconds, 2)
      [] c = "x" -> ZeroPad(t.milliseconds, 3)
      [] c = "y" -> ZeroPad(t.microseconds, 3)
      [] c = "z" -> ZeroPad(t.nanoseconds, 3)

\* the rendering of template str from character i on
RECURSIVE ExpectedRender(_, _, _)
ExpectedRender(str, i, t) ==
    IF i > Len(str) THEN <<>>
    ELSE IF StartsDirective(str, i)
    THEN RenderingOf(str[i + 1], t) \o ExpectedRender(str, i + 2, t)
    ELSE <<str[i]>> \o ExpectedRender(str, i + 1, t)

\* the state is the one a rendering call returned to, and its template
Rendered == call.op \in {"format", "to_string", "format_duration"}
Template == IF call.op = "format_duration" THEN call.str ELSE fmt[1].format

\* C5: rendering a validated template against a Breakdown produces, in
\* template order, every literal character unchanged and each directive's
\* rendering: Y, D, h, m, s unpadded; H, M, S zero-padded to 2 digits; x, y, z
\* zero-padded to 3 digits; 2.5 hours with %H:%M gives 02:30 and 2.5 s +
\* 100 us with %S.%x'%y'%z gives 02.500'100'000.
C5_Rendering ==
    (/\ Rendered
     /\ call.op = "format_duration" => out.kind # "Err"
     /\ SelectorsOf(Template) \subseteq ListedSelectors)
        => /\ call.op # "format" => out.kind = "Ok"
           /\ out.kind = "Ok"
                 => out.text = ExpectedRender(Template, 1,
                                   decomposed_from_float_seconds(secs[1]))
           /\ (/\ call.op # "format"
               /\ Template = <<"%", "H", ":", "%", "M">>
               /\ secs[1] = Seconds(FALSE, 18000, 0))
                 => out.text = <<"0", "2", ":", "3", "0">>
           /\ (/\ call.op # "format"
               /\ Template = <<"%", "S", ".", "%", "x", "'", "%", "y", "'", "%", "z">>
               /\ secs[1] = Seconds(FALSE, 5, 100000))
                 => out.text = <<"0", "2", ".", "5", "0", "0", "'",
                                 "1", "0", "0", "'", "0", "0", "0">>

\* format_duration("%S.%x'%y'%z", 2.5 s + 100 us) returned 02.500'100'000
C5_SubSecondExample ==
    /\ call.op = "format_duration"
    /\ call.str = <<"%", "S", ".", "%", "x", "'", "%", "y", "'", "%", "z">>
    /\ secs = <<Seconds(FALSE, 5, 100000)>>
    /\ out.kind = "Ok"
    /\ out.text = <<"0", "2", ".", "5", "0", "0", "'",
                    "1", "0", "0", "'", "0", "0", "0">>

\* C6: make_format returns a DurationFormat only when the template passed
\* validation, and format() on a DurationFormat it returned never returns
\* UnexpectedFieldDelimiter or UnknownField: it fails only with FmtError, on
\* a sink that refuses a write, or with ValueOutOfRange, on a T or U.
C6_FailFast ==
    /\ call.op = "make_format"
          => /\ fmt # <<>> <=> pc = "formatter"
             /\ pc = "formatter" => validate(fmt[1]) = "Ok"
             /\ pc # "formatter"
                   => out.err \in {"UnexpectedFieldDelimiter", "UnknownField"}
    /\ call.op = "format"
          => /\ out.err \in {"", "FmtError", "ValueOutOfRange"}
             /\ out.err = "FmtError" => call.cap >= 0
             /\ out.err = "ValueOutOfRange"
                   => SelectorsOf(Template) \cap {"T", "U"} # {}

\* format() failed on a sink that refused a write
C6_SinkFailure ==
    /\ call.op = "format"
    /\ pc = "rendered"
    /\ out.kind = "Err"
    /\ out.err = "FmtError"

(***************************************************************************)
(* The builders.                                                           *)
(***************************************************************************)
SetterOps ==
    {"with_years", "with_days", "with_hours", "with_minutes", "with_seconds",
     "with_fractional_seconds"}

\* the argument of the setter is outside the range of its field
OutsideRange(op, n, x) ==
    CASE op = "with_years" -> FALSE
      [] op = "with_days" -> ~BLt(n, BFromInt(365))
      [] op = "with_hours" -> ~BLt(n, BFromInt(24))
      [] op = "with_minutes" -> ~BLt(n, BFromInt(60))
      [] op = "with_seconds" -> ~BLt(n, BFromInt(60))
      [] op = "with_fractional_seconds" -> FLt(x, FZero) \/ ~FLt(x, FFromInt(1))

\* t with the field of the setter changed; the sub-second fields are the
\* ones the decomposer computes for the fraction x
WithField(t, op, n, x) ==
    CASE op = "with_years" -> [t EXCEPT !.years = n]
      [] op = "with_days" -> [t EXCEPT !.days = n]
      [] op = "with_hours" -> [t EXCEPT !.hours = n]
      [] op = "with_minutes" -> [t EXCEPT !.minutes = n]
      [] op = "with_seconds" -> [t EXCEPT !.seconds = n]
      [] op = "with_fractional_seconds" ->
            [t EXCEPT !.fractional_seconds = x,
                      !.milliseconds = decomposed_from_float_seconds(x).milliseconds,
                      !.microseconds = decomposed_from_float_seconds(x).microseconds,
                      !.nanoseconds = decomposed_from_float_seconds(x).nanoseconds]

\* the sub-second fields of t, as numbers
SubSecond(t) ==
    <<BToInt(t.milliseconds), BToInt(t.microseconds), BToInt(t.nanoseconds)>>

\* one call of a setter on the Breakdown of a builder chain
BuilderCall ==
    (pc = "built" /\ call'.op \in SetterOps) =>
        /\ pc' = "panicked" <=> OutsideRange(call'.op, call'.n, call'.x)
        /\ pc' # "panicked" =>
              /\ pc' = "built"
              /\ time'[1] = WithField(time[1], call'.op, call'.n, call'.x)
              /\ InRange(time'[1])
              /\ call'.x = FDiv(FFromInt(2), FFromInt(10))
                    => SubSecond(time'[1]) = <<200, 0, 0>>
              /\ call'.x = FDiv(FFromInt(5), FFromInt(100000))
                    => SubSecond(time'[1]) = <<0, 50, 0>>
              /\ call'.x = FDiv(FFromInt(5), FFromInt(100000000))
                    => SubSecond(time'[1]) = <<0, 0, 50>>

\* C8: from zero() or default(), each with_* call of any sequence either
\* panics, because its argument is outside the range of the field, or
\* returns a Breakdown in which only that field (for with_fractional_seconds
\* also the three sub-second fields) changed, the range invariants hold, and
\* milliseconds/microseconds/nanoseconds are what the decomposer computes for
\* the same fraction (0.2 -> 200 ms, 0.00005 -> 50 us, 0.00000005 -> 50 ns).
C8_Builders == [][BuilderCall]_vars

\* with_fractional_seconds(0.00000005) returned, on a Breakdown whose days a
\* with_days set before
C8_FractionAfterDays ==
    /\ pc = "built"
    /\ call.op = "with_fractional_seconds"
    /\ call.x = FDiv(FFromInt(5), FFromInt(100000000))
    /\ SubSecond(time[1]) = <<0, 0, 50>>
    /\ time[1].days = BFromInt(364)

(***************************************************************************)
(* The selectors T and U.                                                  *)
(***************************************************************************)
\* the folds, computed without a limit
HoursInAll(t) ==
    BAdd(BAdd(BMul(BMul(t.years, BFromInt(365)), BFromInt(24)),
              BMul(t.days, BFromInt(24))),
         t.hours)
DaysInAll(t) == BAdd(BMul(t.years, BFromInt(365)), t.days)

\* n is in the integer range of the fold
Representable(n) == ~BLt(UMax(U64Bits), n)

\* what format() does with a template of the one directive whose fold is n
FoldRendered(n) ==
    IF Representable(n)
    THEN /\ out.err \in {"", "FmtError"}
         /\ out.kind = "Ok" => out.text = Decimal(n)
         /\ call.cap = -1 \/ Len(Decimal(n)) <= call.cap => out.kind = "Ok"
    ELSE /\ out.kind = "Err"
         /\ out.err = "ValueOutOfRange"
         /\ out.text = <<>>

Groups(t) == <<t.milliseconds, t.microseconds, t.nanoseconds>>
Finest(t) ==
    IF \A k \in 1..3 : Groups(t)[k] = <<>> THEN 0
    ELSE CHOOSE k \in 1..3 :
            Groups(t)[k] # <<>> /\ \A j \in (k + 1)..3 : Groups(t)[j] = <<>>

\* `.mmm`, `.mmm'uuu` or `.mmm'uuu'nnn`: the first k groups
RECURSIVE Suffix(_, _)
Suffix(t, k) ==
    IF k = 0 THEN <<>>
    ELSE Suffix(t, k - 1) \o <<IF k = 1 THEN "." ELSE "'">>
             \o ZeroPad(Groups(t)[k], 3)

ExpectedDisplay(t) ==
    (IF t.years # <<>> THEN Decimal(t.years) \o <<"y", "r", " ">> ELSE <<>>)
    \o (IF t.days # <<>> THEN Decimal(t.days) \o <<"d", " ">> ELSE <<>>)
    \o (IF t.hours # <<>> \/ t.days # <<>> \/ t.years # <<>>
        THEN ZeroPad(t.hours, 2) \o <<":">> ELSE <<>>)
    \o ZeroPad(t.minutes, 2) \o <<":">> \o ZeroPad(t.seconds, 2)
    \o Suffix(t, Finest(t))

\* C10: the default Display of a Breakdown is `<years>yr ` only when
\* years > 0, `<days>d ` only when days > 0, the 2-digit hours and `:` only
\* when any of hours, days, years is > 0, always MM:SS, and a sub-second
\* suffix up to the finest unit that is not zero; 2.5 years gives
\* `2yr 182d 12:00:00`, 90 s + 500 us gives `01:30.000'500`, 10 min gives
\* `10:00`.
C10_DefaultDisplay ==
    pc = "displayed" =>
        /\ out.kind = "Ok"
        /\ out.text = ExpectedDisplay(time[1])
        /\ secs = <<Seconds(FALSE, 157680000, 0)>>
              => out.text = <<"2", "y", "r", " ", "1", "8", "2", "d", " ",
                              "1", "2", ":", "0", "0", ":", "0", "0">>
        /\ secs = <<Seconds(FALSE, 180, 500000)>>
              => out.text = <<"0", "1", ":", "3", "0", ".", "0", "0", "0", "'",
                              "5", "0", "0">>
        /\ secs = <<Seconds(FALSE, 1200, 0)>>
              => out.text = <<"1", "0", ":", "0", "0">>

\* 90 s + 500 us was displayed as 01:30.000'500
C10_MicrosecondExample ==
    /\ pc = "displayed"
    /\ secs = <<Seconds(FALSE, 180, 500000)>>
    /\ out.text = <<"0", "1", ":", "3", "0", ".", "0", "0", "0", "'",
                    "5", "0", "0">>

(***************************************************************************)
(* The integer-count adapters.                                             *)
(***************************************************************************)
\* <<n \div 10^9, n % 10^9>>: the whole seconds and the nanoseconds below
\* one second of a count n of nanoseconds
SplitNanos(n) ==
    LET a == BDivModSmall(n, 1000)
        b == BDivModSmall(a[1], 1000)
        c == BDivModSmall(b[1], 1000)
    IN  <<c[1], BFromInt(a[2] + 1000 * b[2] + 1000000 * c[2])>>

\* the unit decomposition of s whole seconds
\* <<years, days, hours, minutes, seconds>>
UnitsOf(s) ==
    LET m == BDivModSmall(s, 60)
        h == BDivModSmall(m[1], 60)
        d == BDivModSmall(h[1], 24)
        y == BDivModSmall(d[1], 365)
    IN  <<y[1], BFromInt(y[2]), BFromInt(d[2]), BFromInt(h[2]), BFromInt(m[2])>>

\* the base-1000 digit groups of n < 10^9 nanoseconds
\* <<milliseconds, microseconds, nanoseconds>>
DigitGroupsOf(n) ==
    LET u == BDivModSmall(n, 1000)
        m == BDivModSmall(u[1], 1000)
    IN  <<m[1], BFromInt(m[2]), BFromInt(u[2])>>

\* t is the Breakdown of s whole seconds and n nanoseconds below one second
BreaksDown(t, s, n) ==
    /\ <<t.years, t.days, t.hours, t.minutes, t.seconds>> = UnitsOf(s)
    /\ <<t.milliseconds, t.microseconds, t.nanoseconds>> = DigitGroupsOf(n)

\* C11: the integer-count adapters convert their value to seconds with a
\* fraction before decomposition: a time::Duration of s whole seconds and n
\* nanoseconds (0 <= n < 10^9) decomposes into the unit decomposition of s
\* and the base-1000 digit groups of n, and a chrono::Duration of N
\* nanoseconds decomposes as N / 10^9 seconds.
C11_IntegerAdapters ==
    /\ (pc = "adapted" /\ call.op = "time_decompose")
          => BreaksDown(time[1], call.n, call.nanos)
    /\ (pc = "adapted" /\ call.op = "chrono_decompose")
          => BreaksDown(time[1], SplitNanos(call.nanos)[1],
                        SplitNanos(call.nanos)[2])

====
